---- MODULE Spec2Model ----
(***************************************************************************)
(* A model of package miyabi (src/server.go, the graceful shutdown and     *)
(* restart version, lines 136-457): the supervising master process         *)
(* (Server.supervise), the worker processes it forks (Server.Serve and     *)
(* Server.startWaitSignals), the connection tracker of Serve (the          *)
(* ConnState callback and its WaitGroup), the timer that force-kills an    *)
(* outgoing worker, and the environment: OS signals, connections, time.    *)
(*                                                                         *)
(* Library semantics the code rests on, as documented by Go:               *)
(*  - signal.Notify(c, ...) on an unbuffered channel never blocks: a       *)
(*    signal is handed over only if a goroutine is receiving on c at that  *)
(*    moment, and is dropped otherwise;                                    *)
(*  - a signal the process has no Notify subscription for (never           *)
(*    subscribed, or unsubscribed again by signal.Stop) takes its default  *)
(*    action; for SIGINT, SIGTERM and SIGHUP the program exits;            *)
(*  - time.AfterFunc(d, f) starts f in its own goroutine once d has        *)
(*    elapsed (at once when d <= 0); Timer.Stop does not wait for an f     *)
(*    that has already been started;                                       *)
(*  - a closure reads a captured variable when it runs;                    *)
(*  - http.Server.Serve closes the listener when it returns.               *)
(***************************************************************************)
EXTENDS Integers, Sequences, FiniteSets, TLC

\* ------------------------------------------------------------- bounds
\* Worker processes forked in one run: the first one plus the restarts.
MaxWorkers == 2
\* Client connections that exist at the same time.
MaxConns == 2
\* The positive value of Timeout, in clock ticks.
MaxTimeout == 1
\* The in-flight count up to which arbitrary sequences of connection-state
\* events are followed.
MaxCount == 3
\* Times the environment disturbs a worker process directly (a signal sent to
\* it, a failing Accept of its listener) in one run.
MaxDirect == 1

Workers == 1..MaxWorkers
ConnIds == 1..MaxConns
Signals == {"SIGINT", "SIGTERM", "SIGHUP"}

\* The configurations <<ShutdownSignal, RestartSignal>> over Signals, one for
\* each way the two can coincide with each other and with SIGINT (the others
\* differ from these by exchanging SIGTERM and SIGHUP).
SignalConfigs ==
    { <<"SIGTERM", "SIGHUP">>, <<"SIGINT", "SIGHUP">>, <<"SIGTERM", "SIGINT">>,
      <<"SIGHUP", "SIGHUP">>, <<"SIGINT", "SIGINT">> }

VARIABLES
    \* configuration (package variables, set before the run)
    ShutdownSignal, RestartSignal, Timeout, GOOS,
    \* the supervisor (master process): Server.supervise
    spc,        \* position in supervise
    sig,        \* the local sig of the switch
    ssub,       \* signals relayed to the channel c of supervise
    lOpen,      \* the master's listener l is open
    p,          \* the tracked child process (0: none)
    child,      \* the local child of the restart case (0: none)
    sret,       \* what supervise returned
    cbs,        \* the ServerState callbacks made, in order
    forks,      \* processes forked so far
    askedStop,  \* history: times p.Signal(ShutdownSignal) was called on the
                \* process now tracked as p
    timer,      \* ticks left on the armed timer, -1 when none is armed
    killers,    \* timer functions started and not yet run
    sinceSig,   \* ticks since the outgoing worker was signalled
    \* the workers: Server.Serve in a forked process, or called directly
    wstate,     \* position of Serve / state of the process
    gpc,        \* position of the goroutine of startWaitSignals
    wsig,       \* the local sig of that goroutine
    wsub,       \* signals relayed to the channel c of startWaitSignals
    keepAlive,  \* http.Server keep-alives enabled
    wl,         \* the listener l of Serve is open
    serveErr,   \* the error http.Server.Serve ended with
    ret,        \* what Serve returned
    wg,         \* the WaitGroup counter
    conns,      \* the map conns: connections recorded active
    \* client connections
    cstate, cowner,
    \* history
    pending,    \* connections in flight at the close of l, not yet completed
    nAtClose,   \* how many were in flight at the close of l
    cause,      \* why the accept loop ended
    direct,     \* direct disturbances of workers so far
    killedBy,   \* the signal whose default action ended the master process
    fdenv,      \* os.Getenv(FDEnvKey) in the first process (0) and in each
                \* forked process; "" when the variable is unset or empty
    lost        \* history: the first signal the channel c of supervise dropped
                \* and where the loop was, <<>> when none was or none is noted

cfgVars == <<ShutdownSignal, RestartSignal, Timeout, GOOS>>
supVars == <<spc, sig, ssub, lOpen, p, child, sret, cbs, forks, askedStop>>
tmVars == <<timer, killers, sinceSig>>
wVars == <<wstate, gpc, wsig, wsub, keepAlive, wl, serveErr, ret, wg, conns>>
cVars == <<cstate, cowner>>
hVars == <<pending, nAtClose, cause>>
procVars == <<wVars, cVars, hVars>>
vars == <<cfgVars, supVars, tmVars, wVars, cVars, hVars, direct, killedBy, fdenv, lost>>

\* ------------------------------------------------------------- errors
NilErr == [kind |-> "nil", op |-> "", msg |-> ""]
NoErr == [kind |-> "none", op |-> "", msg |-> ""]
ClosedMsg == "use of closed network connection"

\* The *net.OpError of Accept on a listener that was closed.
ClosedErr(goos) ==
    [kind |-> "OpError", op |-> IF goos = "windows" THEN "AcceptEx" ELSE "accept",
     msg |-> ClosedMsg]

\* Other errors a listener's Accept can end the serve loop with.
FaultErrs ==
    { [kind |-> "OpError", op |-> "accept", msg |-> "invalid argument"],
      [kind |-> "OpError", op |-> "read", msg |-> ClosedMsg],
      [kind |-> "other", op |-> "", msg |-> ClosedMsg] }

\* A variant of ServeResult that looks at the error's message alone, not at
\* the operation that failed.
ServeResultMsgOnly(goos, err) ==
    IF err.kind = "OpError" /\ err.msg = ClosedMsg THEN NilErr ELSE err

\* Serve, lines 258-267: the value returned for the serve loop's error.
ServeResult(goos, err) ==
    IF err.kind = "OpError"
    THEN LET op == IF goos = "windows" /\ err.op = "AcceptEx" THEN "accept" ELSE err.op
         IN  IF op = "accept" /\ err.msg = ClosedMsg THEN NilErr ELSE err
    ELSE err

\* ------------------------------------------------- connection tracker
\* The ConnState callback of Serve, under mu: the map conns afterwards.
CbConns(m, c, st) ==
    CASE st = "StateActive" -> m \cup {c}
      [] st \in {"StateIdle", "StateClosed"} -> m \ {c}
      [] OTHER -> m

\* A variant of CbWg that calls wg.Done() whether or not the connection is
\* in conns.
CbWgUnguarded(m, n, c, st) ==
    CASE st = "StateActive" -> n + 1
      [] st \in {"StateIdle", "StateClosed"} -> n - 1
      [] OTHER -> n

\* The ConnState callback of Serve, under mu: the WaitGroup counter afterwards.
CbWg(m, n, c, st) ==
    CASE st = "StateActive" -> n + 1
      [] st \in {"StateIdle", "StateClosed"} -> IF c \in m THEN n - 1 ELSE n
      [] OTHER -> n

\* ---------------------------------------------------------- processes
Alive(w) == wstate[w] \in {"boot", "serving", "waiting", "returned"}
Exited(w) == wstate[w] \in {"exited", "dead", "killed"}

\* What the end of process w leaves of it: the OS closes its descriptors and
\* connections, its goroutines are gone.
Gone(w, how) ==
    /\ wstate' = [wstate EXCEPT ![w] = how]
    /\ gpc' = [gpc EXCEPT ![w] = "none"]
    /\ wsig' = [wsig EXCEPT ![w] = "none"]
    /\ wsub' = [wsub EXCEPT ![w] = {}]
    /\ keepAlive' = [keepAlive EXCEPT ![w] = TRUE]
    /\ wl' = [wl EXCEPT ![w] = FALSE]
    /\ serveErr' = [serveErr EXCEPT ![w] = NoErr]
    /\ ret' = [ret EXCEPT ![w] = NoErr]
    /\ wg' = [wg EXCEPT ![w] = 0]
    /\ conns' = [conns EXCEPT ![w] = {}]
    /\ cstate' = [c \in ConnIds |-> IF cowner[c] = w THEN "free" ELSE cstate[c]]
    /\ cowner' = [c \in ConnIds |-> IF cowner[c] = w THEN 0 ELSE cowner[c]]
    /\ pending' = [pending EXCEPT ![w] = {}]
    /\ nAtClose' = [nAtClose EXCEPT ![w] = 0]
    /\ cause' = [cause EXCEPT ![w] = "none"]

\* Signal s reaches worker process w (os/signal with the channel c of
\* startWaitSignals, lines 320-323 and 327): relayed to the goroutine if c is
\* subscribed to s and the goroutine is receiving, dropped if c is subscribed
\* and nobody receives, the default action (the process dies) otherwise.
DeliverW(w, s) ==
    IF ~Alive(w) THEN UNCHANGED procVars
    ELSE IF s \in wsub[w]
         THEN /\ IF gpc[w] = "recv"
                 THEN /\ gpc' = [gpc EXCEPT ![w] = "got"]
                      /\ wsig' = [wsig EXCEPT ![w] = s]
                 ELSE UNCHANGED <<gpc, wsig>>
              /\ UNCHANGED <<wstate, wsub, keepAlive, wl, serveErr, ret, wg, conns,
                             cVars, hVars>>
         ELSE Gone(w, "dead")

\* os.Process.Kill on worker w: SIGKILL.
KillW(w) == IF Alive(w) THEN Gone(w, "killed") ELSE UNCHANGED procVars

\* ------------------------------------------------------------ workers
\* Serve, lines 238-256: install the ConnState callback, startWaitSignals
\* (signal.Notify and the goroutine is started), enter http.Server.Serve.
WorkerServe(w) ==
    /\ wstate[w] = "boot"
    /\ wstate' = [wstate EXCEPT ![w] = "serving"]
    /\ wsub' = [wsub EXCEPT ![w] = {"SIGINT", ShutdownSignal}]
    /\ gpc' = [gpc EXCEPT ![w] = "spawned"]
    /\ UNCHANGED <<wsig, keepAlive, wl, serveErr, ret, wg, conns>>
    /\ UNCHANGED <<cfgVars, supVars, tmVars, cVars, hVars, direct, killedBy, fdenv, lost>>

\* startWaitSignals, line 323: the goroutine blocks in sig := <-c.
GoReceive(w) ==
    /\ Alive(w) /\ gpc[w] = "spawned"
    /\ gpc' = [gpc EXCEPT ![w] = "recv"]
    /\ UNCHANGED <<wstate, wsig, wsub, keepAlive, wl, serveErr, ret, wg, conns>>
    /\ UNCHANGED <<cfgVars, supVars, tmVars, cVars, hVars, direct, killedBy, fdenv, lost>>

\* startWaitSignals, line 324: srv.SetKeepAlivesEnabled(false).
KeepAliveOff(w) ==
    /\ Alive(w) /\ gpc[w] = "got"
    /\ gpc' = [gpc EXCEPT ![w] = "kaoff"]
    /\ keepAlive' = [keepAlive EXCEPT ![w] = FALSE]
    /\ UNCHANGED <<wstate, wsig, wsub, wl, serveErr, ret, wg, conns>>
    /\ UNCHANGED <<cfgVars, supVars, tmVars, cVars, hVars, direct, killedBy, fdenv, lost>>

\* startWaitSignals, lines 325-327: the switch on sig, then signal.Stop(c).
WorkerStop(w) ==
    /\ Alive(w) /\ gpc[w] = "kaoff"
    /\ IF wsig[w] \in {"SIGINT", ShutdownSignal}
       THEN /\ gpc' = [gpc EXCEPT ![w] = "stopped"]
            /\ wsub' = [wsub EXCEPT ![w] = {}]
       ELSE /\ gpc' = [gpc EXCEPT ![w] = "done"]
            /\ UNCHANGED wsub
    /\ UNCHANGED <<wstate, wsig, keepAlive, wl, serveErr, ret, wg, conns>>
    /\ UNCHANGED <<cfgVars, supVars, tmVars, cVars, hVars, direct, killedBy, fdenv, lost>>

\* The listener of Serve is closed; if it was open, what is in flight now is
\* noted.
CloseL(w) ==
    /\ wl' = [wl EXCEPT ![w] = FALSE]
    /\ IF wl[w]
       THEN /\ pending' = [pending EXCEPT ![w] = conns[w]]
            /\ nAtClose' = [nAtClose EXCEPT ![w] = Cardinality(conns[w])]
       ELSE UNCHANGED <<pending, nAtClose>>

\* startWaitSignals, line 328: l.Close().
WorkerClose(w) ==
    /\ Alive(w) /\ gpc[w] = "stopped"
    /\ gpc' = [gpc EXCEPT ![w] = "done"]
    /\ CloseL(w)
    /\ UNCHANGED <<wstate, wsig, wsub, keepAlive, serveErr, ret, wg, conns>>
    /\ UNCHANGED <<cfgVars, supVars, tmVars, cVars, cause, direct, killedBy, fdenv, lost>>

\* Serve, line 256: the accept loop of http.Server.Serve finds l closed and
\* returns the error of Accept.
AcceptLoopEnds(w) ==
    /\ wstate[w] = "serving" /\ ~wl[w]
    /\ wstate' = [wstate EXCEPT ![w] = "waiting"]
    /\ serveErr' = [serveErr EXCEPT ![w] = ClosedErr(GOOS)]
    /\ cause' = [cause EXCEPT ![w] = "closed"]
    /\ UNCHANGED <<gpc, wsig, wsub, keepAlive, wl, ret, wg, conns>>
    /\ UNCHANGED <<cfgVars, supVars, tmVars, cVars, pending, nAtClose, direct, killedBy, fdenv, lost>>

\* Serve, line 256: Accept fails on the open listener with another error;
\* http.Server.Serve returns it (and closes l as it returns).
AcceptFails(w, e) ==
    /\ wstate[w] = "serving" /\ wl[w]
    /\ direct < MaxDirect
    /\ direct' = direct + 1
    /\ wstate' = [wstate EXCEPT ![w] = "waiting"]
    /\ serveErr' = [serveErr EXCEPT ![w] = e]
    /\ cause' = [cause EXCEPT ![w] = "fault"]
    /\ CloseL(w)
    /\ UNCHANGED <<gpc, wsig, wsub, keepAlive, ret, wg, conns>>
    /\ UNCHANGED <<cfgVars, supVars, tmVars, cVars, killedBy, fdenv, lost>>

\* A variant of WaitReturn that does not wait for the counter to reach zero.
WaitReturnNoWait(w) ==
    /\ wstate[w] = "waiting"
    /\ wstate' = [wstate EXCEPT ![w] = "returned"]
    /\ ret' = [ret EXCEPT ![w] = ServeResult(GOOS, serveErr[w])]
    /\ UNCHANGED <<gpc, wsig, wsub, keepAlive, wl, serveErr, wg, conns>>
    /\ UNCHANGED <<cfgVars, supVars, tmVars, cVars, hVars, direct, killedBy, fdenv, lost>>

\* Serve, lines 257-267: wg.Wait() returns with the counter at zero, and Serve
\* returns nil or the serve loop's error.
WaitReturn(w) ==
    /\ wstate[w] = "waiting"
    /\ wg[w] = 0
    /\ wstate' = [wstate EXCEPT ![w] = "returned"]
    /\ ret' = [ret EXCEPT ![w] = ServeResult(GOOS, serveErr[w])]
    /\ UNCHANGED <<gpc, wsig, wsub, keepAlive, wl, serveErr, wg, conns>>
    /\ UNCHANGED <<cfgVars, supVars, tmVars, cVars, hVars, direct, killedBy, fdenv, lost>>

\* ListenAndServe, lines 215 and 232: Serve has returned, the process ends.
WorkerExit(w) ==
    /\ wstate[w] = "returned"
    /\ Gone(w, "exited")
    /\ UNCHANGED <<cfgVars, supVars, tmVars, direct, killedBy, fdenv, lost>>

\* -------------------------------------------------------- connections
\* The process of w runs the connection goroutines of http.Server.
Serving(w) == wstate[w] \in {"serving", "waiting", "returned"}

\* The ConnState callback of Serve (lines 241-254) for event st on c.
ConnState(w, c, st) ==
    /\ conns' = [conns EXCEPT ![w] = CbConns(conns[w], c, st)]
    /\ wg' = [wg EXCEPT ![w] = CbWg(conns[w], wg[w], c, st)]

\* A variant of Accept whose listener still hands out connections after it
\* was closed.
AcceptAnyway(w, c) ==
    /\ wstate[w] = "serving"
    /\ cstate[c] = "free"
    /\ cstate' = [cstate EXCEPT ![c] = "new"]
    /\ cowner' = [cowner EXCEPT ![c] = w]
    /\ ConnState(w, c, "StateNew")
    /\ UNCHANGED <<wstate, gpc, wsig, wsub, keepAlive, wl, serveErr, ret>>
    /\ UNCHANGED <<cfgVars, supVars, tmVars, hVars, direct, killedBy, fdenv, lost>>

\* http.Server.Serve, line 256: l.Accept() hands a new connection to the
\* accept loop of w; the connection reports StateNew.
Accept(w, c) ==
    /\ wstate[w] = "serving" /\ wl[w]
    /\ cstate[c] = "free"
    /\ cstate' = [cstate EXCEPT ![c] = "new"]
    /\ cowner' = [cowner EXCEPT ![c] = w]
    /\ ConnState(w, c, "StateNew")
    /\ UNCHANGED <<wstate, gpc, wsig, wsub, keepAlive, wl, serveErr, ret>>
    /\ UNCHANGED <<cfgVars, supVars, tmVars, hVars, direct, killedBy, fdenv, lost>>

\* A request arrives on a new or idle connection: StateActive, then the
\* handler runs.
Activate(w, c) ==
    /\ Serving(w) /\ cowner[c] = w
    /\ cstate[c] \in {"new", "idle"}
    /\ cstate' = [cstate EXCEPT ![c] = "active"]
    /\ ConnState(w, c, "StateActive")
    /\ UNCHANGED <<wstate, gpc, wsig, wsub, keepAlive, wl, serveErr, ret, cowner>>
    /\ UNCHANGED <<cfgVars, supVars, tmVars, hVars, direct, killedBy, fdenv, lost>>

\* The handler returns and the response is written: StateIdle if the
\* connection is kept alive, StateClosed if not.
Finish(w, c, st) ==
    /\ Serving(w) /\ cowner[c] = w
    /\ cstate[c] = "active"
    /\ st = "StateIdle" => keepAlive[w]
    /\ cstate' = [cstate EXCEPT ![c] = IF st = "StateIdle" THEN "idle" ELSE "free"]
    /\ cowner' = [cowner EXCEPT ![c] = IF st = "StateIdle" THEN w ELSE 0]
    /\ ConnState(w, c, st)
    /\ pending' = [pending EXCEPT ![w] = @ \ {c}]
    /\ UNCHANGED <<wstate, gpc, wsig, wsub, keepAlive, wl, serveErr, ret>>
    /\ UNCHANGED <<cfgVars, supVars, tmVars, nAtClose, cause, direct, killedBy, fdenv, lost>>

\* A new or idle connection is closed (by the client, or by the server):
\* StateClosed.
Disconnect(w, c) ==
    /\ Serving(w) /\ cowner[c] = w
    /\ cstate[c] \in {"new", "idle"}
    /\ cstate' = [cstate EXCEPT ![c] = "free"]
    /\ cowner' = [cowner EXCEPT ![c] = 0]
    /\ ConnState(w, c, "StateClosed")
    /\ UNCHANGED <<wstate, gpc, wsig, wsub, keepAlive, wl, serveErr, ret>>
    /\ UNCHANGED <<cfgVars, supVars, tmVars, hVars, direct, killedBy, fdenv, lost>>

\* The caller of Serve closes the listener it passed in
\* (src/server_test.go, line 49).
CallerClose(w) ==
    /\ Serving(w) /\ wl[w]
    /\ CloseL(w)
    /\ UNCHANGED <<wstate, gpc, wsig, wsub, keepAlive, serveErr, ret, wg, conns>>
    /\ UNCHANGED <<cfgVars, supVars, tmVars, cVars, cause, direct, killedBy, fdenv, lost>>

\* The environment sends signal s to the process of worker w.
EnvSignalWorker(w, s) ==
    /\ Alive(w)
    /\ direct < MaxDirect
    /\ direct' = direct + 1
    /\ DeliverW(w, s)
    /\ UNCHANGED <<cfgVars, supVars, tmVars, killedBy, fdenv, lost>>

\* --------------------------------------------------------- supervisor
SupAlive == spc \notin {"entry", "none", "returned", "dead"}

\* forkExec, line 419: the files the child inherits, in descriptor order
\* (descriptor i is files[i], the i+1st element here).
files == <<"os.Stdin", "os.Stdout", "os.Stderr", "f">>

\* forkExec, line 420: the value given to FDEnvKey in the child's
\* environment, fmt.Sprintf("%d", len(files)-1).
fdEnv == ToString(Len(files) - 1)

\* isMaster, lines 334-336: os.Getenv(FDEnvKey) == "".
isMaster(env) == env = ""

\* getFD, lines 393-403: errNotForked for an unset or empty variable, the
\* error of strconv.Atoi for a value that is not a number, the descriptor
\* otherwise (descriptors are one decimal digit here).
getFD(env) ==
    IF env = "" THEN [fd |-> 0, err |-> "errNotForked"]
    ELSE IF \E n \in 0..9 : ToString(n) = env
         THEN [fd |-> CHOOSE n \in 0..9 : ToString(n) = env, err |-> "nil"]
         ELSE [fd |-> 0, err |-> "Atoi"]

\* ListenAndServe, lines 200-216: what a process that calls it becomes. The
\* master supervises, except on windows where it serves by itself; a process
\* with FDEnvKey set serves on the descriptor, or fails when the value does
\* not parse.
Role(goos, env) ==
    IF isMaster(env)
    THEN IF goos = "windows" THEN "serve" ELSE "supervise"
    ELSE IF getFD(env).err = "nil" THEN "worker" ELSE "error"

\* A variant of Forked that leaves FDEnvKey out of the child's environment.
ForkedNoMarker(n) ==
    /\ forks' = n
    /\ wstate' = [wstate EXCEPT ![n] = "boot"]
    /\ wl' = [wl EXCEPT ![n] = TRUE]
    /\ fdenv' = [fdenv EXCEPT ![n] = fdenv[0]]
    /\ UNCHANGED <<gpc, wsig, wsub, keepAlive, serveErr, ret, wg, conns>>

\* forkExec, lines 405-426, succeeding: process n runs the program with the
\* listener's descriptor among its files and FDEnvKey in its environment.
Forked(n) ==
    /\ forks' = n
    /\ wstate' = [wstate EXCEPT ![n] = "boot"]
    /\ wl' = [wl EXCEPT ![n] = TRUE]
    /\ fdenv' = [fdenv EXCEPT ![n] = fdEnv]
    /\ UNCHANGED <<gpc, wsig, wsub, keepAlive, serveErr, ret, wg, conns>>

\* supervise, lines 339-342: the first worker is forked, or forkExec fails
\* and supervise returns the error.
SupStart ==
    /\ spc = "start"
    /\ \/ /\ forks < MaxWorkers
          /\ Forked(forks + 1)
          /\ p' = forks + 1
          /\ spc' = "cbstart"
          /\ UNCHANGED sret
       \/ /\ spc' = "returned"
          /\ sret' = "forkerr"
          /\ UNCHANGED <<p, forks, wVars, fdenv>>
    /\ UNCHANGED <<sig, ssub, lOpen, child, cbs, askedStop>>
    /\ UNCHANGED <<cfgVars, tmVars, cVars, hVars, direct, killedBy, lost>>

\* supervise, lines 343-345: ServerState(StateStart).
SupCbStart ==
    /\ spc = "cbstart"
    /\ cbs' = Append(cbs, "Start")
    /\ spc' = "notify"
    /\ UNCHANGED <<sig, ssub, lOpen, p, child, sret, forks, askedStop>>
    /\ UNCHANGED <<cfgVars, tmVars, wVars, cVars, hVars, direct, killedBy, fdenv, lost>>

\* supervise, lines 346-347: signal.Notify(c, SIGINT, ShutdownSignal,
\* RestartSignal), then the loop blocks in <-c.
SupNotify ==
    /\ spc = "notify"
    /\ ssub' = {"SIGINT", ShutdownSignal, RestartSignal}
    /\ spc' = "recv"
    /\ UNCHANGED <<sig, lOpen, p, child, sret, cbs, forks, askedStop>>
    /\ UNCHANGED <<cfgVars, tmVars, wVars, cVars, hVars, direct, killedBy, fdenv, lost>>

\* supervise, lines 349-350 and 365: the switch on the received signal; the
\* first case that matches is taken.
Dispatch(s) ==
    IF s = RestartSignal THEN "r_fork"
    ELSE IF s \in {"SIGINT", ShutdownSignal} THEN "s_stop" ELSE "recv"

\* The environment sends signal s to the master process (os/signal with the
\* channel c of supervise, lines 346-349 and 366): received by the loop if c
\* is subscribed to s and the loop is blocked in <-c, dropped if c is
\* subscribed and the loop is elsewhere, the default action (the process
\* dies, and its timers with it) otherwise.
SignalSup(s) ==
    /\ SupAlive
    /\ IF s \in ssub
       THEN IF spc = "recv"
            THEN /\ sig' = s
                 /\ spc' = Dispatch(s)
                 /\ UNCHANGED <<ssub, lOpen, tmVars, killedBy>>
            ELSE UNCHANGED <<spc, sig, ssub, lOpen, tmVars, killedBy>>
       ELSE /\ spc' = "dead"
            /\ killedBy' = s
            /\ ssub' = {}
            /\ lOpen' = FALSE
            /\ timer' = -1
            /\ killers' = 0
            /\ sinceSig' = 0
            /\ UNCHANGED sig
    /\ UNCHANGED <<p, child, sret, cbs, forks, askedStop>>
    /\ UNCHANGED <<cfgVars, wVars, cVars, hVars, direct, fdenv>>

\* The step as the specifications of the service take it.
EnvSignalSup(s) == SignalSup(s) /\ UNCHANGED lost

\* The same step with the drop noted: the send of os/signal to the unbuffered
\* channel c (line 346) does not block, so a subscribed signal that arrives
\* while the loop is not in <-c (line 349) is discarded.
EnvSignalSupNoted(s) ==
    /\ SignalSup(s)
    /\ lost' = IF lost = <<>> /\ s \in ssub /\ spc # "recv" THEN <<s, spc>> ELSE lost

\* A variant of SupRestartFork that rolls the service back when forkExec
\* fails: it closes the listener before it returns the error.
SupRestartForkRollback ==
    /\ spc = "r_fork"
    /\ \/ /\ forks < MaxWorkers
          /\ Forked(forks + 1)
          /\ child' = forks + 1
          /\ spc' = "r_signal"
          /\ UNCHANGED <<sret, lOpen>>
       \/ /\ spc' = "returned"
          /\ sret' = "forkerr"
          /\ lOpen' = FALSE
          /\ UNCHANGED <<child, forks, wVars, fdenv>>
    /\ UNCHANGED <<sig, ssub, p, cbs, askedStop>>
    /\ UNCHANGED <<cfgVars, tmVars, cVars, hVars, direct, killedBy, lost>>

\* supervise, lines 351-354: the replacement is forked, or forkExec fails and
\* supervise returns the error.
SupRestartFork ==
    /\ spc = "r_fork"
    /\ \/ /\ forks < MaxWorkers
          /\ Forked(forks + 1)
          /\ child' = forks + 1
          /\ spc' = "r_signal"
          /\ UNCHANGED sret
       \/ /\ spc' = "returned"
          /\ sret' = "forkerr"
          /\ UNCHANGED <<child, forks, wVars, fdenv>>
    /\ UNCHANGED <<sig, ssub, lOpen, p, cbs, askedStop>>
    /\ UNCHANGED <<cfgVars, tmVars, cVars, hVars, direct, killedBy, lost>>

\* supervise, lines 356-358 and 369-371: time.AfterFunc(Timeout, ...) arms a
\* timer that expires after Timeout.
Armed == Timeout

\* supervise, lines 355-358 and 368-371: p.Signal(ShutdownSignal), then the
\* timer is armed.
SignalAndArm(from, next) ==
    /\ spc = from
    /\ DeliverW(p, ShutdownSignal)
    /\ askedStop' = IF askedStop < 2 THEN askedStop + 1 ELSE askedStop
    /\ timer' = Armed
    /\ sinceSig' = 0
    /\ spc' = next
    /\ UNCHANGED <<sig, ssub, lOpen, p, child, sret, cbs, forks>>
    /\ UNCHANGED <<cfgVars, killers, direct, killedBy, fdenv, lost>>

SupRestartSignal == SignalAndArm("r_signal", "r_wait")

\* supervise, lines 359 and 372: p.Wait() returns once the process has ended.
SupWait(from, next) ==
    /\ spc = from
    /\ Exited(p)
    /\ spc' = next
    /\ UNCHANGED <<sig, ssub, lOpen, p, child, sret, cbs, forks, askedStop>>
    /\ UNCHANGED <<cfgVars, tmVars, wVars, cVars, hVars, direct, killedBy, fdenv, lost>>

SupRestartWait == SupWait("r_wait", "r_tstop")

\* supervise, lines 360 and 373: timer.Stop(); a timer function already
\* started is not stopped.
SupTimerStop(from, next) ==
    /\ spc = from
    /\ timer' = -1
    /\ spc' = next
    /\ UNCHANGED <<killers, sinceSig>>
    /\ UNCHANGED <<sig, ssub, lOpen, p, child, sret, cbs, forks, askedStop>>
    /\ UNCHANGED <<cfgVars, wVars, cVars, hVars, direct, killedBy, fdenv, lost>>

SupRestartTimerStop == SupTimerStop("r_tstop", "r_swap")

\* A variant of SupRestartSwap that forgets the replacement: p stays the old
\* process.
SupRestartSwapKeep ==
    /\ spc = "r_swap"
    /\ child' = 0
    /\ askedStop' = 0
    /\ spc' = "r_cb"
    /\ sinceSig' = 0
    /\ UNCHANGED <<timer, killers>>
    /\ UNCHANGED <<sig, ssub, lOpen, p, sret, cbs, forks>>
    /\ UNCHANGED <<cfgVars, wVars, cVars, hVars, direct, killedBy, fdenv, lost>>

\* supervise, line 361: p = child.
SupRestartSwap ==
    /\ spc = "r_swap"
    /\ p' = child
    /\ child' = 0
    /\ askedStop' = 0
    /\ spc' = "r_cb"
    /\ sinceSig' = 0
    /\ UNCHANGED <<timer, killers>>
    /\ UNCHANGED <<sig, ssub, lOpen, sret, cbs, forks>>
    /\ UNCHANGED <<cfgVars, wVars, cVars, hVars, direct, killedBy, fdenv, lost>>

\* supervise, lines 362-364: ServerState(StateRestart), and back to <-c.
SupRestartDone ==
    /\ spc = "r_cb"
    /\ cbs' = Append(cbs, "Restart")
    /\ sig' = "none"
    /\ spc' = "recv"
    /\ UNCHANGED <<ssub, lOpen, p, child, sret, forks, askedStop>>
    /\ UNCHANGED <<cfgVars, tmVars, wVars, cVars, hVars, direct, killedBy, fdenv, lost>>

\* supervise, line 366: signal.Stop(c).
SupStop ==
    /\ spc = "s_stop"
    /\ ssub' = {}
    /\ spc' = "s_close"
    /\ UNCHANGED <<sig, lOpen, p, child, sret, cbs, forks, askedStop>>
    /\ UNCHANGED <<cfgVars, tmVars, wVars, cVars, hVars, direct, killedBy, fdenv, lost>>

\* A variant of SupClose that leaves the master's listener open.
SupCloseSkip ==
    /\ spc = "s_close"
    /\ spc' = "s_signal"
    /\ UNCHANGED <<sig, ssub, lOpen, p, child, sret, cbs, forks, askedStop>>
    /\ UNCHANGED <<cfgVars, tmVars, wVars, cVars, hVars, direct, killedBy, fdenv, lost>>

\* supervise, line 367: l.Close() on the master's listener.
SupClose ==
    /\ spc = "s_close"
    /\ lOpen' = FALSE
    /\ spc' = "s_signal"
    /\ UNCHANGED <<sig, ssub, p, child, sret, cbs, forks, askedStop>>
    /\ UNCHANGED <<cfgVars, tmVars, wVars, cVars, hVars, direct, killedBy, fdenv, lost>>

SupShutdownSignal == SignalAndArm("s_signal", "s_wait")

SupShutdownWait == SupWait("s_wait", "s_tstop")

SupShutdownTimerStop == SupTimerStop("s_tstop", "s_cb")

\* A variant of SupShutdownDone that returns without the callback.
SupShutdownDoneNoCb ==
    /\ spc = "s_cb"
    /\ sret' = "nil"
    /\ spc' = "returned"
    /\ sinceSig' = 0
    /\ UNCHANGED <<timer, killers>>
    /\ UNCHANGED <<sig, ssub, lOpen, p, child, cbs, forks, askedStop>>
    /\ UNCHANGED <<cfgVars, wVars, cVars, hVars, direct, killedBy, fdenv, lost>>

\* supervise, lines 374-377: ServerState(StateShutdown), return err.
SupShutdownDone ==
    /\ spc = "s_cb"
    /\ cbs' = Append(cbs, "Shutdown")
    /\ sret' = "nil"
    /\ spc' = "returned"
    /\ sinceSig' = 0
    /\ UNCHANGED <<timer, killers>>
    /\ UNCHANGED <<sig, ssub, lOpen, p, child, forks, askedStop>>
    /\ UNCHANGED <<cfgVars, wVars, cVars, hVars, direct, killedBy, fdenv, lost>>

\* -------------------------------------------------------------- timer
\* time.AfterFunc, lines 356 and 369: Timeout has elapsed, the timer function
\* is started in its own goroutine.
TimerExpire ==
    /\ spc # "dead"
    /\ timer = 0
    /\ timer' = -1
    /\ killers' = killers + 1
    /\ UNCHANGED sinceSig
    /\ UNCHANGED <<cfgVars, supVars, wVars, cVars, hVars, direct, killedBy, fdenv, lost>>

\* The timer function, lines 357 and 370: p.Kill(), with p read as it runs.
TimerKill ==
    /\ spc # "dead"
    /\ killers > 0
    /\ killers' = killers - 1
    /\ KillW(p)
    /\ UNCHANGED <<timer, sinceSig>>
    /\ UNCHANGED <<cfgVars, supVars, direct, killedBy, fdenv, lost>>

\* A unit of time passes while the supervisor waits for the outgoing worker.
\* Time does not pass a timer's expiry before the timer function has run.
Tick ==
    /\ spc \in {"r_wait", "s_wait"}
    /\ timer # 0 /\ killers = 0
    /\ sinceSig <= Timeout
    /\ sinceSig' = sinceSig + 1
    /\ timer' = IF timer > 0 THEN timer - 1 ELSE timer
    /\ UNCHANGED killers
    /\ UNCHANGED <<cfgVars, supVars, wVars, cVars, hVars, direct, killedBy, fdenv, lost>>

\* ------------------------------------------------------ specification
InitWorkers ==
    /\ gpc = [w \in Workers |-> "none"]
    /\ wsig = [w \in Workers |-> "none"]
    /\ wsub = [w \in Workers |-> {}]
    /\ keepAlive = [w \in Workers |-> TRUE]
    /\ serveErr = [w \in Workers |-> NoErr]
    /\ ret = [w \in Workers |-> NoErr]
    /\ wg = [w \in Workers |-> 0]
    /\ conns = [w \in Workers |-> {}]
    /\ cstate = [c \in ConnIds |-> "free"]
    /\ cowner = [c \in ConnIds |-> 0]
    /\ pending = [w \in Workers |-> {}]
    /\ nAtClose = [w \in Workers |-> 0]
    /\ cause = [w \in Workers |-> "none"]
    /\ direct = 0
    /\ killedBy = "none"

InitSup ==
    /\ sig = "none" /\ ssub = {} /\ p = 0 /\ child = 0 /\ sret = "none"
    /\ askedStop = 0 /\ cbs = <<>>
    /\ timer = -1 /\ killers = 0 /\ sinceSig = 0

\* ListenAndServe in the master process (lines 200-209): the listener is
\* bound and supervise begins.
Init ==
    /\ \E cfg \in SignalConfigs : ShutdownSignal = cfg[1] /\ RestartSignal = cfg[2]
    /\ Timeout \in {0, MaxTimeout}
    /\ GOOS = "linux"
    /\ spc = "start" /\ lOpen = TRUE /\ forks = 0
    /\ InitSup
    /\ wstate = [w \in Workers |-> "unborn"]
    /\ wl = [w \in Workers |-> FALSE]
    /\ InitWorkers
    /\ fdenv = [i \in 0..MaxWorkers |-> ""]
    /\ lost = <<>>

WorkerNext(w, C) ==
    \/ WorkerServe(w)
    \/ GoReceive(w)
    \/ KeepAliveOff(w)
    \/ WorkerStop(w)
    \/ WorkerClose(w)
    \/ AcceptLoopEnds(w)
    \/ WaitReturn(w)
    \/ WorkerExit(w)
    \/ \E c \in C : Accept(w, c)
    \/ \E c \in C : Activate(w, c)
    \/ \E c \in C, st \in {"StateIdle", "StateClosed"} : Finish(w, c, st)
    \/ \E c \in C : Disconnect(w, c)
    \/ \E s \in Signals : EnvSignalWorker(w, s)

SupSteps ==
    \/ SupStart
    \/ SupCbStart
    \/ SupNotify
    \/ SupRestartFork
    \/ SupRestartSignal
    \/ SupRestartWait
    \/ SupRestartTimerStop
    \/ SupRestartSwap
    \/ SupRestartDone
    \/ SupStop
    \/ SupClose
    \/ SupShutdownSignal
    \/ SupShutdownWait
    \/ SupShutdownTimerStop
    \/ SupShutdownDone
    \/ TimerExpire
    \/ TimerKill
    \/ Tick

SupNext == SupSteps \/ \E s \in Signals : EnvSignalSup(s)

\* Under supervision the model follows one client connection (a probe).
ProbeConns == {1}

Next == SupNext \/ \E w \in Workers : WorkerNext(w, ProbeConns)

Spec == Init /\ [][Next]_vars

\* Serve called directly on a listener of the caller (src/server_test.go,
\* lines 26-110): one serving process, no supervisor.
InitServe ==
    /\ ShutdownSignal \in Signals
    /\ RestartSignal = "SIGHUP"
    /\ Timeout = 0
    /\ GOOS \in {"linux", "windows"}
    /\ spc = "none" /\ lOpen = FALSE /\ forks = 1
    /\ InitSup
    /\ wstate = [w \in Workers |-> IF w = 1 THEN "boot" ELSE "unborn"]
    /\ wl = [w \in Workers |-> w = 1]
    /\ InitWorkers
    /\ fdenv = [i \in 0..MaxWorkers |-> ""]
    /\ lost = <<>>

NextServe ==
    \/ WorkerNext(1, ConnIds)
    \/ \E e \in FaultErrs : AcceptFails(1, e)
    \/ CallerClose(1)

SpecServe == InitServe /\ [][NextServe]_vars

\* The ConnState callback of Serve on its own (lines 241-254), given any
\* sequence of events on any connections, duplicate and out-of-order ones
\* included.
\* ListenAndServe, lines 200-216, from its first line: the first process of
\* a run, with any value of FDEnvKey in its environment, takes its role. A
\* process that serves by itself is followed as process 1; with FDEnvKey set
\* by hand, net.FileListener (line 390) succeeds or fails with what the
\* descriptor happens to be.
ListenAndServe ==
    /\ spc = "entry"
    /\ LET role == Role(GOOS, fdenv[0]) IN
       \/ /\ role = "supervise"
          /\ spc' = "start"
          /\ lOpen' = TRUE
          /\ UNCHANGED <<sret, forks, wstate, wl, fdenv>>
       \/ /\ role \in {"serve", "worker"}
          /\ spc' = "none"
          /\ forks' = 1
          /\ wstate' = [wstate EXCEPT ![1] = "boot"]
          /\ wl' = [wl EXCEPT ![1] = TRUE]
          /\ fdenv' = [fdenv EXCEPT ![1] = fdenv[0]]
          /\ UNCHANGED <<sret, lOpen>>
       \/ /\ role \in {"worker", "error"}
          /\ spc' = "returned"
          /\ sret' = "fderr"
          /\ UNCHANGED <<lOpen, forks, wstate, wl, fdenv>>
    /\ UNCHANGED <<sig, ssub, p, child, cbs, askedStop>>
    /\ UNCHANGED <<gpc, wsig, wsub, keepAlive, serveErr, ret, wg, conns>>
    /\ UNCHANGED <<cfgVars, tmVars, cVars, hVars, direct, killedBy, lost>>

\* The values FDEnvKey may have in the environment of the first process:
\* unset or empty, a descriptor, not a number.
Markers == {"", fdEnv, "x"}

InitRoles ==
    /\ \E cfg \in SignalConfigs : ShutdownSignal = cfg[1] /\ RestartSignal = cfg[2]
    /\ Timeout = 0
    /\ GOOS \in {"linux", "windows"}
    /\ spc = "entry" /\ lOpen = FALSE /\ forks = 0
    /\ InitSup
    /\ wstate = [w \in Workers |-> "unborn"]
    /\ wl = [w \in Workers |-> FALSE]
    /\ InitWorkers
    /\ \E m \in Markers : fdenv = [i \in 0..MaxWorkers |-> IF i = 0 THEN m ELSE ""]
    /\ lost = <<>>

NextRoles == ListenAndServe \/ Next

SpecRoles == InitRoles /\ [][NextRoles]_vars

\* The supervised run with the default signals and a positive Timeout,
\* noting the signals the master's channel drops.
InitSignals ==
    /\ ShutdownSignal = "SIGTERM" /\ RestartSignal = "SIGHUP"
    /\ Timeout = MaxTimeout
    /\ GOOS = "linux"
    /\ spc = "start" /\ lOpen = TRUE /\ forks = 0
    /\ InitSup
    /\ wstate = [w \in Workers |-> "unborn"]
    /\ wl = [w \in Workers |-> FALSE]
    /\ InitWorkers
    /\ fdenv = [i \in 0..MaxWorkers |-> ""]
    /\ lost = <<>>

NextSignals ==
    \/ SupSteps
    \/ \E s \in Signals : EnvSignalSupNoted(s)
    \/ \E w \in Workers : WorkerNext(w, ProbeConns)

SpecSignals == InitSignals /\ [][NextSignals]_vars

ConnStates == {"StateNew", "StateActive", "StateHijacked", "StateIdle", "StateClosed"}

\* The state a connection is in after it reported st.
StateOf(st) ==
    CASE st = "StateNew" -> "new"
      [] st = "StateActive" -> "active"
      [] st = "StateHijacked" -> "hijacked"
      [] st = "StateIdle" -> "idle"
      [] OTHER -> "free"

TrackerEvent(w, c, st) ==
    /\ st = "StateActive" => wg[w] < MaxCount
    /\ ConnState(w, c, st)
    /\ cstate' = [cstate EXCEPT ![c] = StateOf(st)]
    /\ cowner' = [cowner EXCEPT ![c] = IF st = "StateClosed" THEN 0 ELSE w]
    /\ UNCHANGED <<wstate, gpc, wsig, wsub, keepAlive, wl, serveErr, ret>>
    /\ UNCHANGED <<cfgVars, supVars, tmVars, hVars, direct, killedBy, fdenv, lost>>

InitTracker ==
    /\ ShutdownSignal = "SIGTERM"
    /\ RestartSignal = "SIGHUP"
    /\ Timeout = 0
    /\ GOOS = "linux"
    /\ spc = "none" /\ lOpen = FALSE /\ forks = 1
    /\ InitSup
    /\ wstate = [w \in Workers |-> IF w = 1 THEN "serving" ELSE "unborn"]
    /\ wl = [w \in Workers |-> w = 1]
    /\ InitWorkers
    /\ fdenv = [i \in 0..MaxWorkers |-> ""]
    /\ lost = <<>>

NextTracker == \E c \in ConnIds, st \in ConnStates : TrackerEvent(1, c, st)

SpecTracker == InitTracker /\ [][NextTracker]_vars

\* ------------------------------------------------------------- claims
RestartPcs == {"r_fork", "r_signal", "r_wait", "r_tstop", "r_swap", "r_cb"}
ShutdownPcs == {"s_stop", "s_close", "s_signal", "s_wait", "s_tstop", "s_cb"}
Terminating == {"SIGINT", ShutdownSignal}
Count(seq, x) == Cardinality({i \in 1..Len(seq) : seq[i] = x})

\* The supervisor has taken a signal from <-c into the shutdown case.
ShutdownAccepted == sig # "none" /\ Dispatch(sig) = "s_stop"

\* Worker w holds the listener open.
Listening(w) == w # 0 /\ Alive(w) /\ wl[w]

\* C1 (drain completeness): Serve returns only when the in-flight count is
\* exactly 0, and by then every request that was in flight when the listener
\* was closed has completed, however many there were.
C1_ReturnStep ==
    \A w \in Workers :
        (wstate[w] = "waiting" /\ wstate'[w] = "returned") =>
            wg[w] = 0 /\ conns[w] = {} /\ pending[w] = {} /\ wg'[w] = 0

C1_DrainCompleteness == [][C1_ReturnStep]_vars

\* Serve has returned after a close that found MaxConns requests in flight.
C1_Witness == \E w \in Workers : wstate[w] = "returned" /\ nAtClose[w] = MaxConns

\* C2 (at-most-one handling): once the supervisor has accepted a terminating
\* signal, a later terminating signal has no effect in that process: it does
\* not end the process, the worker is signalled once, and Shutdown is called
\* at most once, and exactly once when the sequence is over.
C2_AtMostOnce ==
    ShutdownAccepted =>
        /\ killedBy \notin Terminating
        /\ askedStop <= 1
        /\ Count(cbs, "Shutdown") <= 1
        /\ spc = "returned" => Count(cbs, "Shutdown") = 1

\* C3 (restart continuity): in every state of a restart sequence, a worker
\* that has not been asked to stop holds the listener open (workers the
\* environment has not disturbed directly).
C3_Continuity ==
    (spc \in RestartPcs /\ direct = 0) =>
        \/ Listening(p) /\ askedStop = 0
        \/ Listening(child)

\* C4 (timeout enforcement): an outgoing worker that was sent its shutdown
\* signal and is still running is within Timeout of the signal and has its
\* forced kill pending (unless a signal that is not a terminating signal has
\* ended the master).
C4_TimeoutEnforced ==
    (askedStop > 0 /\ Alive(p) /\ killedBy \in {"none"} \cup Terminating) =>
        /\ sinceSig <= Timeout
        /\ timer >= 0 \/ killers > 0

\* C5 (zero disables the timeout): with Timeout = 0 no timer function is ever
\* started and no worker is force-killed.
C5_ZeroDisablesKill ==
    Timeout = 0 => killers = 0 /\ \A w \in Workers : wstate[w] # "killed"

\* Start, then Restarts only, up to position n of the callbacks.
StartThenRestarts(n) ==
    n >= 1 /\ cbs[1] = "Start" /\ \A i \in 2..n : cbs[i] = "Restart"

\* C6 (callback ordering, amended): the callbacks made so far are always a
\* prefix of Start, Restart*, Shutdown; Shutdown is made only as supervise
\* returns from the shutdown sequence, and then exactly once and last; a
\* return with forkExec's error makes no Shutdown (and no callback at all if
\* the first fork failed).
C6_CallbackOrder ==
    /\ cbs = <<>> \/ StartThenRestarts(Len(cbs))
       \/ (StartThenRestarts(Len(cbs) - 1) /\ cbs[Len(cbs)] = "Shutdown")
    /\ Count(cbs, "Shutdown") > 0 => spc = "returned" /\ sret = "nil"
    /\ (spc = "returned" /\ sret = "nil") =>
           Len(cbs) >= 2 /\ cbs[Len(cbs)] = "Shutdown" /\ Count(cbs, "Shutdown") = 1
    /\ (spc = "returned" /\ sret = "forkerr") => Count(cbs, "Shutdown") = 0
    /\ spc \in {"start", "cbstart"} => cbs = <<>>

\* supervise has returned after Start, one Restart and Shutdown.
C6_Witness == spc = "returned" /\ cbs = <<"Start", "Restart", "Shutdown">>

\* C6 as stated: whenever the serve call has returned, the callbacks were
\* Start, zero or more Restart, and one terminal Shutdown.
C6_AlwaysShutdown ==
    spc = "returned" =>
        /\ Len(cbs) >= 2
        /\ StartThenRestarts(Len(cbs) - 1)
        /\ cbs[Len(cbs)] = "Shutdown"

\* C7 (worker shutdown sequence): the signal goroutine closes the listener only
\* with keep-alives already disabled; Serve's accept loop ends only on a closed
\* listener, and Serve returns only after the drain; a worker accepts a
\* connection only while its listener is open; whatever the shutdown signal.
C7_Step ==
    \A w \in Workers :
        /\ (gpc[w] = "stopped" /\ gpc'[w] = "done") =>
               ~keepAlive[w] /\ ~wl'[w]
        /\ (wstate[w] = "serving" /\ wstate'[w] = "waiting") => ~wl'[w]
        /\ (wstate[w] = "waiting" /\ wstate'[w] = "returned") =>
               ~wl[w] /\ wg[w] = 0 /\ pending[w] = {}
        /\ \A c \in ConnIds :
               (cstate[c] = "free" /\ cstate'[c] = "new" /\ cowner'[c] = w) => wl[w]

C8_Step ==
    \A w \in Workers :
        (wstate[w] = "waiting" /\ wstate'[w] = "returned") =>
            /\ wg[w] = 0
            /\ ret'[w] = NilErr <=> cause[w] = "closed"
            /\ ret'[w] # NilErr => ret'[w] = serveErr[w]

C8_ServeResult == [][C8_Step]_vars

\* Serve has returned nil on windows, where Accept on the closed listener
\* fails as AcceptEx.
C8_Witness ==
    \E w \in Workers :
        /\ wstate[w] = "returned" /\ ret[w] = NilErr
        /\ GOOS = "windows" /\ serveErr[w].op = "AcceptEx" /\ cause[w] = "closed"

\* C9 (signal dispatch): whatever the configuration, a supervisor that took
\* SIGINT or ShutdownSignal from <-c is in the shutdown sequence, and one in
\* a restart sequence took RestartSignal.
C9_Dispatch ==
    /\ (sig \in Terminating /\ SupAlive) => spc \in ShutdownPcs
    /\ spc \in RestartPcs => sig = RestartSignal

\* C10 (restart fork failure): the step on which forkExec fails in a restart
\* returns the error at once and changes nothing else: no callback, no signal
\* or kill to the worker, no timer, the listener stays open.
C10_Step ==
    (spc = "r_fork" /\ spc' = "returned") =>
        /\ sret' = "forkerr"
        /\ cbs' = cbs /\ lOpen' = lOpen /\ lOpen
        /\ UNCHANGED <<p, child, askedStop, forks, tmVars, procVars>>

C10_RestartForkFailure == [][C10_Step]_vars

\* supervise has returned forkExec's error from a restart, and the worker
\* still serves on the open listener.
C10_Witness ==
    /\ spc = "returned" /\ sret = "forkerr" /\ cbs # <<>>
    /\ Count(cbs, "Restart") = 0
    /\ wstate[p] = "serving" /\ wl[p] /\ lOpen

\* The master has closed its listener in the shutdown sequence and runs on.
AfterSupClose == ~lOpen /\ spc \in {"s_signal", "s_wait", "s_tstop", "s_cb", "returned"}

\* C11 (supervisor shutdown, amended): in the shutdown sequence the master's
\* listener is closed before the worker is signalled, and when supervise has
\* returned from the shutdown sequence no process is left that holds the
\* listener (until then the worker may accept on its own descriptor).
C11_CloseBeforeSignal ==
    /\ (spc \in ShutdownPcs \cup {"returned"} /\ askedStop > 0) => ~lOpen
    /\ (spc = "returned" /\ sret = "nil") =>
           \A w \in Workers : ~Alive(w) /\ ~wl[w]

\* The master has closed its listener and signalled the worker, which still
\* holds its own descriptor open.
C11_Witness == spc = "s_wait" /\ ~lOpen /\ askedStop = 1 /\ Listening(p)

\* C11 as stated: from the master's close of the listener on, no process
\* accepts a further connection.
C11_NoAcceptAfterClose ==
    [][AfterSupClose => \A c \in ConnIds : ~(cstate[c] = "free" /\ cstate'[c] = "new")]_vars

\* C12 (drain await under races): once wg.Wait() has returned, no connection
\* is active and none becomes active: the counter is 0 and conns is empty in
\* every state in which Serve has returned from the shutdown path.
C12_NoActiveAfterAwait ==
    \A w \in Workers :
        (wstate[w] = "returned" /\ cause[w] = "closed") => wg[w] = 0 /\ conns[w] = {}

\* C13 (tracker idempotence): after any sequence of events, duplicate and
\* out-of-order ones included, the in-flight count is the number of
\* connections recorded as active.
C13_CountIsRecorded == \A w \in Workers : wg[w] = Cardinality(conns[w])

\* C14 (count never negative): the in-flight count is never negative, and a
\* callback changes it by +1, on an activated event, or by -1, on an idled
\* or closed event of a connection recorded as active, or not at all.
C14_Step ==
    \A w \in Workers :
        /\ wg[w] >= 0 /\ wg'[w] >= 0
        /\ \/ wg'[w] = wg[w]
           \/ /\ wg'[w] = wg[w] + 1
              /\ \E c \in ConnIds : cstate'[c] = "active" /\ c \in conns'[w]
           \/ /\ wg'[w] = wg[w] - 1
              /\ \E c \in ConnIds :
                     cstate'[c] \in {"idle", "free"} /\ c \in conns[w] /\ c \notin conns'[w]

C14_CountNeverNegative == [][C14_Step]_vars

\* Every connection has been activated and then idled, and the count is
\* back at 0.
C14_Witness ==
    /\ wg[1] = 0 /\ conns[1] = {}
    /\ \A c \in ConnIds : cstate[c] = "idle" /\ cowner[c] = 1

\* The supervisor is blocked in p.Wait().
WaitPcs == {"r_wait", "s_wait"}

\* C15 (timer disarm): with a positive Timeout, once p.Wait() has returned
\* with the timer not yet fired, the timer never fires: a timer function is
\* started only while the supervisor is still waiting for the worker.
C15_NoKillAfterWait ==
    [][(Timeout > 0 /\ killers' > killers) => spc \in WaitPcs]_vars

Supervised == spc \notin {"entry", "none"} /\ sret # "fderr"

C18_KillOnlyOutgoing ==
    (Timeout > 0 /\ ShutdownSignal # RestartSignal /\ RestartSignal # "SIGINT") =>
        \A w \in Workers : (wstate[w] = "killed" /\ w = p) => askedStop > 0


\* C19: no signal sent to the supervisor after Start is lost; in particular
\* none is dropped while the supervisor waits, inside a restart sequence, for
\* the old worker to exit (a dropped signal is never handled).
C19_NoSignalLost == lost # <<>> => lost[2] # "r_wait"


\* C20: whenever the supervisor is in Running (blocked in <-c), the worker it
\* tracks is alive and accepting on the listener: it has not left its accept
\* loop to drain, returned from Serve or exited, also after a signal was
\* delivered to the worker directly.
C20_TrackedWorkerServes ==
    spc = "recv" => p # 0 /\ wstate[p] \notin {"waiting", "returned", "exited"}

====
